---- MODULE Spec2Model ----
(***************************************************************************)
(* Model of the error-annotation library in errors.go.                     *)
(*                                                                         *)
(* The heap holds the chain nodes (Go pointers are heap indices), the map  *)
(* store holds every Fields map by address (Go maps are references), and   *)
(* a caller with one error variable `err` and one Fields map of its own    *)
(* drives the constructors, the chain algorithms and the formatters.       *)
(* The caller builds one chain: it makes a terminus when it holds no       *)
(* error and annotates the error it holds.  Text is a sequence of          *)
(* characters (a field's key or value is one element of it).               *)
(***************************************************************************)
EXTENDS Integers, Sequences, FiniteSets, TLC

VARIABLES heap, maps, err, ret

vars == <<heap, maps, err, ret>>

\* ---------------------------------------------------------------- bounds
MaxNodes == 3

\* ---------------------------------------------------------------- inputs
Msgs == { <<"a">>, <<"b", "1">> }
NewMsgs == { <<"b", "1">> }
Formats == { [format |-> <<"a">>, args |-> <<>>],
             [format |-> <<"b", "%d">>, args |-> <<1>>] }
NewFormats == { [format |-> <<"b", "%d">>, args |-> <<1>>] }
ConstMsgs == { <<"E">> }
Keys == { "k1", "k2" }
Vals == { "v1", "v2" }
Verbs == { [verb |-> "s", plus |-> FALSE], [verb |-> "v", plus |-> FALSE],
           [verb |-> "v", plus |-> TRUE],  [verb |-> "q", plus |-> FALSE] }

\* ---------------------------------------------------------------- values
NIL == 0
EmptyFields == [k \in {} |-> "v1"]
NoRef == [space |-> "none", n |-> 0]
CallerRef == [space |-> "caller", n |-> 0]
RetRef == [space |-> "ret", n |-> 0]
NodeRef(n) == [space |-> "node", n |-> n]
NoStack == <<>>

Wrappers == { "withStack", "withMessage", "withFields" }

\* the opaque stack value captured at the construction call
callers == << <<"f", "r", "a", "m", "e">> >>

\* fmt.Sprintf restricted to the %d verb with matching arguments
Digits == <<"0", "1", "2", "3", "4", "5", "6", "7", "8", "9">>

RECURSIVE Sprintf(_, _)
Sprintf(format, args) ==
  IF format = <<>> THEN <<>>
  ELSE IF Head(format) = "%d"
       THEN <<Digits[Head(args) + 1]>> \o Sprintf(Tail(format), Tail(args))
       ELSE <<Head(format)>> \o Sprintf(Tail(format), args)

\* strconv quoting as used by %q, for text without characters to escape
Quote(s) == <<"\"">> \o s \o <<"\"">>

\* ---------------------------------------------------------------- nodes
ErrorConst(message) ==
  [kind |-> "Error", cause |-> NIL, msg |-> message, stack |-> NoStack, fields |-> NoRef]

fundamental(message, st) ==
  [kind |-> "fundamental", cause |-> NIL, msg |-> message, stack |-> st, fields |-> NoRef]

withStack(e, st) ==
  [kind |-> "withStack", cause |-> e, msg |-> <<>>, stack |-> st, fields |-> NoRef]

withMessage(e, message) ==
  [kind |-> "withMessage", cause |-> e, msg |-> message, stack |-> NoStack, fields |-> NoRef]

withFields(e, ref) ==
  [kind |-> "withFields", cause |-> e, msg |-> <<>>, stack |-> NoStack, fields |-> ref]

\* the causer interface: which values have a Cause method
IsCauser(e) == heap[e].kind \in Wrappers

\* the fielder interface of GetFields: which values have a Fields method
IsFielder(e) == heap[e].kind = "withFields"

withStack_Cause(e) == heap[e].cause
withMessage_Cause(e) == heap[e].cause
withFields_Cause(e) == heap[e].cause

CauseOf(e) ==
  CASE heap[e].kind = "withStack" -> withStack_Cause(e)
    [] heap[e].kind = "withMessage" -> withMessage_Cause(e)
    [] heap[e].kind = "withFields" -> withFields_Cause(e)

\* withFields.Fields returns the stored map itself (its address)
withFields_Fields(e) == heap[e].fields

\* ---------------------------------------------------------------- Error()
RECURSIVE Error(_)
Error_Error(e) == heap[e].msg
fundamental_Error(e) == heap[e].msg
\* the description with the cause's text ahead of the message
withMessage_Error_CauseFirst(e) == Error(heap[e].cause) \o <<":", " ">> \o heap[e].msg
withMessage_Error(e) == heap[e].msg \o <<":", " ">> \o Error(heap[e].cause)
withFields_Error(e) == Error(heap[e].cause)
\* withStack embeds the wrapped error, so Error is the child's
withStack_Error(e) == Error(heap[e].cause)

Error(e) ==
  CASE heap[e].kind = "Error" -> Error_Error(e)
    [] heap[e].kind = "fundamental" -> fundamental_Error(e)
    [] heap[e].kind = "withStack" -> withStack_Error(e)
    [] heap[e].kind = "withMessage" -> withMessage_Error(e)
    [] heap[e].kind = "withFields" -> withFields_Error(e)

\* ---------------------------------------------------------------- Cause
RECURSIVE Cause(_)
\* Cause unwrapping a single level
Cause_OneLevel(e) ==
  IF e = NIL THEN e
  ELSE IF ~IsCauser(e) THEN e
  ELSE CauseOf(e)

Cause(e) ==
  IF e = NIL THEN e
  ELSE IF ~IsCauser(e) THEN e
  ELSE Cause(CauseOf(e))

\* ---------------------------------------------------------------- Unpack
\* entries of the returned slice: a chain node as-is, or errors.New(msg)
AsIs(e) == [kind |-> "node", id |-> e, msg |-> <<>>]
errors_New(message) == [kind |-> "errorString", id |-> NIL, msg |-> message]

UnpackAppend(stack, e) ==
  CASE heap[e].kind = "withStack" -> stack
    [] heap[e].kind = "withFields" -> stack
    [] heap[e].kind = "withMessage" -> Append(stack, errors_New(heap[e].msg))
    [] OTHER -> Append(stack, AsIs(e))

RECURSIVE UnpackCollect(_, _)
UnpackCollect(stack, e) ==
  IF e = NIL THEN stack
  ELSE IF IsCauser(e) THEN UnpackCollect(UnpackAppend(stack, e), CauseOf(e))
  ELSE UnpackAppend(stack, e)

\* for i := len(stack)/2 - 1; i >= 0; i-- { swap stack[i], stack[len-1-i] }
\* (Go index i is TLA+ index i + 1)
RECURSIVE UnpackReverse(_, _)
\* the reversal loop with the condition i > 0
UnpackReverse_SkipFirst(stack, i) ==
  IF i <= 0 THEN stack
  ELSE LET opp == Len(stack) - 1 - i
       IN UnpackReverse([stack EXCEPT ![i + 1] = stack[opp + 1],
                                      ![opp + 1] = stack[i + 1]], i - 1)

UnpackReverse(stack, i) ==
  IF i < 0 THEN stack
  ELSE LET opp == Len(stack) - 1 - i
       IN UnpackReverse([stack EXCEPT ![i + 1] = stack[opp + 1],
                                      ![opp + 1] = stack[i + 1]], i - 1)

Unpack(e) ==
  LET stack == UnpackCollect(<<>>, e)
  IN UnpackReverse(stack, (Len(stack) \div 2) - 1)

\* ---------------------------------------------------------------- GetFields
\* a merge that keeps the value already present for a key
MergeInto_KeepExisting(dst, src) ==
  [k \in (DOMAIN dst) \cup (DOMAIN src) |-> IF k \in DOMAIN dst THEN dst[k] ELSE src[k]]

\* for k, v := range src { dst[k] = v }
MergeInto(dst, src) ==
  [k \in (DOMAIN dst) \cup (DOMAIN src) |-> IF k \in DOMAIN src THEN src[k] ELSE dst[k]]

RECURSIVE GetFieldsLoop(_, _)
\* the walk ending at the first node that has no Fields method
GetFieldsLoop_StopAtNonFielder(fields, e) ==
  IF e = NIL THEN fields
  ELSE IF ~IsFielder(e) THEN fields
  ELSE IF ~IsCauser(e) THEN MergeInto(fields, maps[withFields_Fields(e)])
  ELSE GetFieldsLoop(MergeInto(fields, maps[withFields_Fields(e)]), CauseOf(e))

GetFieldsLoop(fields, e) ==
  IF e = NIL THEN fields
  ELSE LET merged == IF IsFielder(e)
                     THEN MergeInto(fields, maps[withFields_Fields(e)])
                     ELSE fields
       IN IF ~IsCauser(e) THEN merged
          ELSE GetFieldsLoop(merged, CauseOf(e))

\* the contents of the map GetFields builds
GetFields(e) == GetFieldsLoop(EmptyFields, e)

\* GetFields merging into, and returning, the head node's own map
GetFieldsRef_Alias(e) ==
  IF e # NIL /\ IsFielder(e) THEN withFields_Fields(e) ELSE RetRef

\* the address of the map GetFields returns: a map made by the call
GetFieldsRef(e) == RetRef

\* ---------------------------------------------------------------- Format
\* stack.Format under %+v: one line per captured frame
RECURSIVE stack_Format(_)
stack_Format(st) ==
  IF st = <<>> THEN <<>>
  ELSE <<"\n">> \o Head(st) \o stack_Format(Tail(st))

\* "  %s: %v\n" for each key of the map, in the order the range yields them
RECURSIVE FieldLines(_, _)
FieldLines(f, order) ==
  IF order = <<>> THEN <<>>
  ELSE (IF Head(order) \in DOMAIN f
        THEN <<" ", " ", Head(order), ":", " ", f[Head(order)], "\n">>
        ELSE <<>>) \o FieldLines(f, Tail(order))

RECURSIVE Fprintf(_, _, _)

fundamental_Format(e, v, ord) ==
  IF v.verb = "v" /\ v.plus
  THEN heap[e].msg \o stack_Format(heap[e].stack)
  ELSE IF v.verb \in {"v", "s"} THEN heap[e].msg
  ELSE IF v.verb = "q" THEN Quote(heap[e].msg)
  ELSE <<>>

withStack_Format(e, v, ord) ==
  IF v.verb = "v" /\ v.plus
  THEN Fprintf(withStack_Cause(e), [verb |-> "v", plus |-> TRUE], ord)
         \o stack_Format(heap[e].stack)
  ELSE IF v.verb \in {"v", "s"} THEN Error(e)
  ELSE IF v.verb = "q" THEN Quote(Error(e))
  ELSE <<>>

\* the message line written ahead of the child's rendering
withMessage_Format_MessageFirst(e, v, ord) ==
  IF v.verb = "v" /\ v.plus
  THEN heap[e].msg \o <<"\n">>
         \o Fprintf(withMessage_Cause(e), [verb |-> "v", plus |-> TRUE], ord)
  ELSE IF v.verb \in {"v", "s", "q"} THEN Error(e)
  ELSE <<>>

withMessage_Format(e, v, ord) ==
  IF v.verb = "v" /\ v.plus
  THEN Fprintf(withMessage_Cause(e), [verb |-> "v", plus |-> TRUE], ord)
         \o <<"\n">> \o heap[e].msg
  ELSE IF v.verb \in {"v", "s", "q"} THEN Error(e)
  ELSE <<>>

withFields_Format(e, v, ord) ==
  IF v.verb = "v" /\ v.plus
  THEN Fprintf(withFields_Cause(e), [verb |-> "v", plus |-> TRUE], ord)
         \o <<"\n">> \o FieldLines(maps[heap[e].fields], ord[e])
  ELSE IF v.verb \in {"v", "s", "q"} THEN Error(e)
  ELSE <<>>

\* fmt's handling of an error value without a Format method
Error_Format(e, v, ord) ==
  IF v.verb = "q" THEN Quote(Error(e)) ELSE Error(e)

\* fmt.Fprintf(s, "%<verb>", e): dispatch on the dynamic type of e
Fprintf(e, v, ord) ==
  CASE heap[e].kind = "Error" -> Error_Format(e, v, ord)
    [] heap[e].kind = "fundamental" -> fundamental_Format(e, v, ord)
    [] heap[e].kind = "withStack" -> withStack_Format(e, v, ord)
    [] heap[e].kind = "withMessage" -> withMessage_Format(e, v, ord)
    [] heap[e].kind = "withFields" -> withFields_Format(e, v, ord)

\* ---------------------------------------------------------------- state
\* the caller's record of its last call: the operation, the error and the
\* other argument passed, what was returned, and for GetFields what the
\* returned map held when it was returned
NoRet == [op |-> "none", in |-> NIL, arg |-> NIL, out |-> NIL, val |-> NIL]

\* the maps some chain node stores
Stored == { heap[n].fields : n \in DOMAIN heap }

\* the caller keeps only the result of its last call: the map it passed to
\* an earlier WithFields and the map an earlier GetFields returned are no
\* longer referenced by it, and go unless a node stores them
Drop(m) == [r \in (DOMAIN m) \ ({CallerRef, RetRef} \ Stored) |-> m[r]]

Store(m, ref, f) == [r \in (DOMAIN m) \cup {ref} |-> IF r = ref THEN f ELSE m[r]]

Init ==
  /\ heap = <<>>
  /\ maps = <<>>
  /\ err = NIL
  /\ ret = NoRet

\* a constructor that returned `out` for input `in`, allocating `nodes`
Built(op, in, arg, nodes, out) ==
  /\ Len(heap) + Len(nodes) <= MaxNodes
  /\ heap' = heap \o nodes
  /\ err' = out
  /\ ret' = [op |-> op, in |-> in, arg |-> arg, out |-> out, val |-> NIL]

Fresh == Len(heap) + 1

\* ---------------------------------------------------------------- constructors
\* a constant error of type Error
ErrorValue(message) ==
  /\ err = NIL
  /\ Built("ErrorValue", NIL, message, <<ErrorConst(message)>>, Fresh)
  /\ maps' = Drop(maps)

New(message) ==
  /\ err = NIL
  /\ Built("New", NIL, message, <<fundamental(message, callers)>>, Fresh)
  /\ maps' = Drop(maps)

Errorf(format, args) ==
  /\ err = NIL
  /\ Built("Errorf", NIL, Sprintf(format, args),
           <<fundamental(Sprintf(format, args), callers)>>, Fresh)
  /\ maps' = Drop(maps)

Wrap(e, message) ==
  /\ IF e = NIL
     THEN Built("Wrap", e, message, <<>>, NIL)
     ELSE Built("Wrap", e, message,
                <<withMessage(e, message), withStack(Fresh, callers)>>, Fresh + 1)
  /\ maps' = Drop(maps)

Wrapf(e, format, args) ==
  /\ IF e = NIL
     THEN Built("Wrapf", e, Sprintf(format, args), <<>>, NIL)
     ELSE Built("Wrapf", e, Sprintf(format, args),
                <<withMessage(e, Sprintf(format, args)), withStack(Fresh, callers)>>,
                Fresh + 1)
  /\ maps' = Drop(maps)

WithStack(e) ==
  /\ IF e = NIL
     THEN Built("WithStack", e, NIL, <<>>, NIL)
     ELSE Built("WithStack", e, NIL, <<withStack(e, callers)>>, Fresh)
  /\ maps' = Drop(maps)

WithMessage(e, message) ==
  /\ IF e = NIL
     THEN Built("WithMessage", e, message, <<>>, NIL)
     ELSE Built("WithMessage", e, message, <<withMessage(e, message)>>, Fresh)
  /\ maps' = Drop(maps)

WithMessagef(e, format, args) ==
  /\ IF e = NIL
     THEN Built("WithMessagef", e, Sprintf(format, args), <<>>, NIL)
     ELSE Built("WithMessagef", e, Sprintf(format, args),
                <<withMessage(e, Sprintf(format, args))>>, Fresh)
  /\ maps' = Drop(maps)

\* WithField without its nil check
WithField_NoNilCheck(e, key, value) ==
  /\ Built("WithField", e, (key :> value), <<withFields(e, NodeRef(Fresh))>>, Fresh)
  /\ maps' = Store(Drop(maps), NodeRef(Fresh), (key :> value))

\* Fields{key: value}: a new map with the one entry
WithField(e, key, value) ==
  IF e = NIL
  THEN /\ Built("WithField", e, (key :> value), <<>>, NIL)
       /\ maps' = Drop(maps)
  ELSE /\ Built("WithField", e, (key :> value), <<withFields(e, NodeRef(Fresh))>>, Fresh)
       /\ maps' = Store(Drop(maps), NodeRef(Fresh), (key :> value))

\* the node storing the caller's map itself
WithFieldsStored_Alias(fields) == fields

\* the address of the map the new node stores: f := make(Fields, len(fields))
WithFieldsStored(fields) == NodeRef(Fresh)

\* `fields` is the address of the caller's map, `contents` what it holds
\* when the call is made
WithFields(e, fields, contents) ==
  LET passed == Store(Drop(maps), fields, contents)
  IN IF e = NIL
     THEN /\ Built("WithFields", e, contents, <<>>, NIL)
          /\ maps' = passed
     ELSE LET f == WithFieldsStored(fields)
          IN /\ Built("WithFields", e, contents, <<withFields(e, f)>>, Fresh)
             /\ maps' = Store(passed, f, MergeInto(EmptyFields, passed[fields]))

\* ---------------------------------------------------------------- the caller's own mutations
\* the maps the caller holds a reference to
Held ==
  (IF ret.op = "WithFields" THEN {CallerRef} ELSE {})
    \cup (IF ret.op = "GetFields" THEN {ret.out} ELSE {})

\* m[k] = v on a map the caller holds
MapSet(ref, k, v) ==
  /\ ref \in Held
  /\ maps' = [maps EXCEPT ![ref] = MergeInto(@, (k :> v))]
  /\ maps' # maps
  /\ UNCHANGED <<heap, err, ret>>

\* delete(m, k) on a map the caller holds
MapDelete(ref, k) ==
  /\ ref \in Held
  /\ k \in DOMAIN maps[ref]
  /\ maps' = [maps EXCEPT ![ref] = [j \in (DOMAIN @) \ {k} |-> @[j]]]
  /\ UNCHANGED <<heap, err, ret>>

\* ---------------------------------------------------------------- algorithm calls
CallCause(e) ==
  /\ ret' = [op |-> "Cause", in |-> e, arg |-> NIL, out |-> Cause(e), val |-> NIL]
  /\ maps' = Drop(maps)
  /\ UNCHANGED <<heap, err>>

CallUnpack(e) ==
  /\ ret' = [op |-> "Unpack", in |-> e, arg |-> NIL, out |-> Unpack(e), val |-> NIL]
  /\ maps' = Drop(maps)
  /\ UNCHANGED <<heap, err>>

CallGetFields(e) ==
  /\ ret' = [op |-> "GetFields", in |-> e, arg |-> NIL, out |-> GetFieldsRef(e),
             val |-> GetFields(e)]
  /\ maps' = Store(Drop(maps), GetFieldsRef(e), GetFields(e))
  /\ UNCHANGED <<heap, err>>

CallError(e) ==
  /\ e # NIL
  /\ ret' = [op |-> "Error", in |-> e, arg |-> NIL, out |-> Error(e), val |-> NIL]
  /\ maps' = Drop(maps)
  /\ UNCHANGED <<heap, err>>

\* the orders in which ranging over a map may yield its keys
KeyOrders == { <<"k1", "k2">>, <<"k2", "k1">> }

\* one order per node whose map the verbose format ranges over; the other
\* verbs range over no map
RangeOrders(v) ==
  IF v.verb = "v" /\ v.plus
  THEN [{ n \in DOMAIN heap : IsFielder(n) } -> KeyOrders]
  ELSE { [n \in {} |-> <<>>] }

CallFormat(e, v, ord) ==
  /\ e # NIL
  /\ ret' = [op |-> "Format", in |-> e, arg |-> v, out |-> Fprintf(e, v, ord),
             val |-> NIL]
  /\ maps' = Drop(maps)
  /\ UNCHANGED <<heap, err>>

\* the maps the caller passes to WithFields: none, one and two entries
FieldsArgs == { EmptyFields, ("k1" :> "v2"), ("k1" :> "v1") @@ ("k2" :> "v2") }

Next ==
  \/ \E m \in ConstMsgs : ErrorValue(m)
  \/ \E m \in NewMsgs : New(m)
  \/ \E f \in NewFormats : Errorf(f.format, f.args)
  \/ \E m \in Msgs : Wrap(err, m)
  \/ \E f \in Formats : Wrapf(err, f.format, f.args)
  \/ WithStack(err)
  \/ \E m \in Msgs : WithMessage(err, m)
  \/ \E f \in Formats : WithMessagef(err, f.format, f.args)
  \/ \E k \in Keys, v \in Vals : WithField(err, k, v)
  \/ \E c \in FieldsArgs : WithFields(err, CallerRef, c)
  \/ \E r \in DOMAIN maps, k \in Keys, v \in Vals : MapSet(r, k, v)
  \/ \E r \in DOMAIN maps, k \in Keys : MapDelete(r, k)
  \/ CallCause(err)
  \/ CallUnpack(err)
  \/ CallGetFields(err)
  \/ CallError(err)
  \/ \E v \in Verbs : \E ord \in RangeOrders(v) : CallFormat(err, v, ord)

Spec == Init /\ [][Next]_vars

\* ---------------------------------------------------------------- chains
\* The structure of a chain, read off the nodes' links: the nodes from a
\* head to its terminus, independently of the algorithms above.
RECURSIVE Chain(_)
Chain(n) == IF n = NIL THEN <<>> ELSE <<n>> \o Chain(heap[n].cause)

Terminus(n) == Chain(n)[Len(Chain(n))]

Rev(s) == [i \in 1..Len(s) |-> s[Len(s) + 1 - i]]

RECURSIVE Flatten(_)
Flatten(ss) == IF ss = <<>> THEN <<>> ELSE Head(ss) \o Flatten(Tail(ss))

IsPrefix(p, s) == Len(p) <= Len(s) /\ SubSeq(s, 1, Len(p)) = p

IsMessageNode(n) == heap[n].kind = "withMessage"
IsFieldNode(n) == heap[n].kind = "withFields"

Annotators ==
  {"Wrap", "Wrapf", "WithMessage", "WithMessagef", "WithStack", "WithField", "WithFields"}
MessageAnnotators == {"Wrap", "Wrapf", "WithMessage", "WithMessagef"}

\* ---------------------------------------------------------------- C1
\* C1: every annotation constructor (Wrap, Wrapf, WithMessage, WithMessagef,
\* WithStack, WithField, WithFields) called with a nil error returns nil and
\* builds no node, whatever its other arguments; called with a non-nil error
\* it returns a non-nil error, a node it has just built.
C1_NilInNilOut ==
  [][ (ret' # ret /\ ret'.op \in Annotators) =>
        /\ ret'.in = err
        /\ err' = ret'.out
        /\ (err = NIL => ret'.out = NIL /\ heap' = heap)
        /\ (err # NIL => /\ ret'.out # NIL
                         /\ ret'.out \in (DOMAIN heap') \ (DOMAIN heap)) ]_vars

\* a WithFields call on nil, with a non-empty map, has returned nil
C1_Witness ==
  /\ ret.op = "WithFields"
  /\ ret.in = NIL
  /\ ret.arg # EmptyFields
  /\ ret.out = NIL
  /\ heap = <<>>

\* ---------------------------------------------------------------- C2
\* the description the claim gives for a chain: the messages of its message
\* nodes from head to terminus, each followed by ": ", then the description
\* of the terminus
Described(n) ==
  LET c == Chain(n)
  IN Flatten([i \in 1..Len(c) |->
                IF i = Len(c) THEN heap[c[i]].msg
                ELSE IF IsMessageNode(c[i]) THEN heap[c[i]].msg \o <<":", " ">>
                ELSE <<>>])

\* C2: for a non-nil e, Wrap(e, m).Error() and WithMessage(e, m).Error() are
\* m + ": " + e.Error(), WithStack(e).Error(), WithField(e, k, v).Error() and
\* WithFields(e, f).Error() are e.Error(), and so the description of any
\* chain is its message nodes' messages from head to terminus, each followed
\* by ": ", then the terminus description.
C2_Description ==
  /\ \A n \in DOMAIN heap : Error(n) = Described(n)
  /\ (ret.op \in MessageAnnotators /\ ret.out # NIL) =>
        Error(ret.out) = ret.arg \o <<":", " ">> \o Error(ret.in)
  /\ (ret.op \in Annotators \ MessageAnnotators /\ ret.out # NIL) =>
        Error(ret.out) = Error(ret.in)
  /\ ret.op = "Error" => ret.out = Described(ret.in)

\* Error() was called on the result of Wrap
C2_Witness ==
  /\ ret.op = "Error"
  /\ heap[ret.in].kind = "withStack"
  /\ IsMessageNode(heap[ret.in].cause)
  /\ ret.out = heap[heap[ret.in].cause].msg \o <<":", " ">> \o heap[Terminus(ret.in)].msg

\* ---------------------------------------------------------------- C3
\* C3: Cause unwraps fully: for every chain built over a terminus by any
\* sequence of annotation calls, Cause(chain) is that terminus itself;
\* Cause(nil) is nil and Cause of a terminus is the terminus.
C3_CauseIsTerminus ==
  /\ Cause(NIL) = NIL
  /\ \A n \in DOMAIN heap :
        /\ Cause(n) = Terminus(n)
        /\ heap[Cause(n)].kind \notin Wrappers
        /\ (heap[n].kind \notin Wrappers => Cause(n) = n)
  /\ ret.op = "Cause" =>
        ret.out = (IF ret.in = NIL THEN NIL ELSE Terminus(ret.in))

\* Cause was called on a terminus wrapped twice, and returned the terminus
C3_Witness ==
  /\ ret.op = "Cause"
  /\ ret.in # NIL
  /\ Len(Chain(ret.in)) = 3
  /\ ret.out = Chain(ret.in)[3]

\* ---------------------------------------------------------------- C4
\* the field nodes of a chain, from head to terminus
FieldNodesOf(n) == SelectSeq(Chain(n), IsFieldNode)

FieldsAt(m) == maps[heap[m].fields]

\* the pairs attached anywhere in the chain
PairsOf(n) ==
  LET fn == FieldNodesOf(n)
  IN UNION { { <<k, FieldsAt(fn[i])[k]>> : k \in DOMAIN FieldsAt(fn[i]) } : i \in 1..Len(fn) }

KeysOf(n) == { kv[1] : kv \in PairsOf(n) }

\* the field nodes of the chain that attach key k, as positions from the head
Attaching(n, k) ==
  { i \in 1..Len(FieldNodesOf(n)) : k \in DOMAIN FieldsAt(FieldNodesOf(n)[i]) }

Outermost(n, k) == FieldNodesOf(n)[CHOOSE i \in Attaching(n, k) : \A j \in Attaching(n, k) : i <= j]
Innermost(n, k) == FieldNodesOf(n)[CHOOSE i \in Attaching(n, k) : \A j \in Attaching(n, k) : i >= j]

\* overwriting node by node from the head to the terminus leaves, for each
\* key, what the last node that attaches it wrote
Overwritten(n) == [k \in KeysOf(n) |-> FieldsAt(Innermost(n, k))[k]]

DistinctKeys(n) == \A k \in KeysOf(n) : Cardinality(Attaching(n, k)) = 1

\* C4: GetFields(err) is the mapping obtained from the empty mapping by
\* overwriting it with each node's fields from the head to the terminus; it
\* walks through stack and message wrappers as well as field wrappers, so
\* when all keys of the chain are distinct it holds exactly the pairs
\* attached by the chain's field nodes; it is empty for nil and for a chain
\* without field nodes.
C4_FieldsMerged ==
  /\ GetFields(NIL) = EmptyFields
  /\ \A n \in DOMAIN heap :
        /\ GetFields(n) = Overwritten(n)
        /\ (FieldNodesOf(n) = <<>> => GetFields(n) = EmptyFields)
        /\ (DistinctKeys(n) =>
              { <<k, GetFields(n)[k]>> : k \in DOMAIN GetFields(n) } = PairsOf(n))
  /\ ret.op = "GetFields" =>
        ret.val = (IF ret.in = NIL THEN EmptyFields ELSE Overwritten(ret.in))

\* GetFields was called on a stack or message wrapper over a field node,
\* and returned the two pairs attached below the wrapper
C4_Witness ==
  /\ ret.op = "GetFields"
  /\ ret.in # NIL
  /\ heap[ret.in].kind \in {"withMessage", "withStack"}
  /\ FieldNodesOf(ret.in) # <<>>
  /\ DistinctKeys(ret.in)
  /\ DOMAIN ret.val = Keys

\* ---------------------------------------------------------------- C5
\* key k is attached by two field nodes of the chain, with different values
Conflict(n, k) ==
  /\ k \in KeysOf(n)
  /\ FieldsAt(Outermost(n, k))[k] # FieldsAt(Innermost(n, k))[k]

\* C5 as stated: when the same key is attached by two field nodes of one
\* chain, GetFields holds the value of the node closer to the head.
C5_OuterWins ==
  \A n \in DOMAIN heap : \A k \in Keys :
     Conflict(n, k) => GetFields(n)[k] = FieldsAt(Outermost(n, k))[k]

\* C5 (amended): when the same key is attached by two field nodes of one
\* chain, GetFields holds the value of the node closer to the terminus (the
\* inner, earlier applied annotation), not that of the node closer to the
\* head.
C5_InnerWins ==
  /\ \A n \in DOMAIN heap : \A k \in Keys :
        Conflict(n, k) =>
           /\ GetFields(n)[k] = FieldsAt(Innermost(n, k))[k]
           /\ GetFields(n)[k] # FieldsAt(Outermost(n, k))[k]
  /\ (ret.op = "GetFields" /\ ret.in # NIL) =>
        \A k \in Keys : Conflict(ret.in, k) => ret.val[k] = FieldsAt(Innermost(ret.in, k))[k]

\* GetFields was called on a chain whose two field nodes attach k1 with
\* different values
C5_Witness ==
  /\ ret.op = "GetFields"
  /\ ret.in # NIL
  /\ Conflict(ret.in, "k1")
  /\ ret.val["k1"] = FieldsAt(Innermost(ret.in, "k1"))["k1"]

\* ---------------------------------------------------------------- C6
\* C6: WithFields stores a copy of the supplied mapping: after
\* n := WithFields(e, f), whatever the caller later inserts into, overwrites
\* in or deletes from f, the fields stored in n are what f held at the call,
\* and GetFields(n) is what it was.
C6_FieldsCopied ==
  (ret.op = "WithFields" /\ ret.out # NIL) =>
     /\ FieldsAt(ret.out) = ret.arg
     /\ GetFields(ret.out) = MergeInto(ret.arg, GetFields(ret.in))

\* the caller has changed its map after passing it to WithFields
C6_Witness ==
  /\ ret.op = "WithFields"
  /\ ret.out # NIL
  /\ ret.arg # EmptyFields
  /\ maps[CallerRef] # ret.arg
  /\ FieldsAt(ret.out) = ret.arg

\* ---------------------------------------------------------------- C7
\* what the claim says Unpack returns: the terminus itself, then the own
\* message of each message node, innermost first
Unpacked(n) ==
  <<AsIs(Terminus(n))>> \o
    [i \in 1..Len(SelectSeq(Rev(Chain(n)), IsMessageNode)) |->
       errors_New(heap[SelectSeq(Rev(Chain(n)), IsMessageNode)[i]].msg)]

\* C7: Unpack returns the chain terminus-first, outermost-last: index 0 is
\* the terminus itself, then one entry per message node carrying only that
\* node's own message, in order of application; stack and field nodes
\* contribute no entry, so the length is 1 plus the number of message
\* nodes; Unpack(nil) is empty.
C7_UnpackOrder ==
  /\ Unpack(NIL) = <<>>
  /\ \A n \in DOMAIN heap :
        /\ Unpack(n) = Unpacked(n)
        /\ Len(Unpack(n)) = 1 + Len(SelectSeq(Chain(n), IsMessageNode))
        /\ Unpack(n)[1] = AsIs(Terminus(n))
  /\ ret.op = "Unpack" =>
        ret.out = (IF ret.in = NIL THEN <<>> ELSE Unpacked(ret.in))

\* Unpack was called on a terminus under two message nodes with different
\* messages
C7_Witness ==
  /\ ret.op = "Unpack"
  /\ Len(ret.out) = 3
  /\ ret.out[1].kind = "node"
  /\ ret.out[2].msg # ret.out[3].msg
  /\ ret.out[3].msg = heap[ret.in].msg

\* ---------------------------------------------------------------- C8
Verbose == [verb |-> "v", plus |-> TRUE]

\* what a wrapper writes of its own under %+v
Payload(n, ord) ==
  CASE heap[n].kind = "withStack" -> stack_Format(heap[n].stack)
    [] heap[n].kind = "withMessage" -> <<"\n">> \o heap[n].msg
    [] heap[n].kind = "withFields" -> <<"\n">> \o FieldLines(FieldsAt(n), ord[n])

\* C8: %+v on a wrapper writes the child's verbose rendering first and then
\* the wrapper's own payload (stack frames, message line or field listing),
\* so the verbose output of a chain of any depth begins with the terminus's
\* plain description, ahead of every wrapper's payload.
C8_VerboseChildFirst ==
  /\ \A n \in DOMAIN heap : \A ord \in RangeOrders(Verbose) :
        /\ IsPrefix(Error(Terminus(n)), Fprintf(n, Verbose, ord))
        /\ (heap[n].kind \in Wrappers =>
              Fprintf(n, Verbose, ord)
                = Fprintf(heap[n].cause, Verbose, ord) \o Payload(n, ord))
  /\ (ret.op = "Format" /\ ret.arg = Verbose) =>
        IsPrefix(Error(Terminus(ret.in)), ret.out)

\* a doubly-wrapped error was formatted with %+v
C8_Witness ==
  /\ ret.op = "Format"
  /\ ret.arg = Verbose
  /\ Len(Chain(ret.in)) = 3
  /\ Len(ret.out) > Len(Error(Terminus(ret.in)))

\* ---------------------------------------------------------------- C9
\* C9: chain nodes are never mutated after construction: over any sequence
\* of constructor calls, algorithm calls and changes the caller makes to the
\* maps it holds (the one it passed to WithFields, the one GetFields
\* returned), every node built keeps its wrapped child and its payload
\* (message, stack, fields together with the map's contents), and GetFields
\* of the chain returns what it returned before.
C9_NodesImmutable ==
  [][ \A n \in DOMAIN heap :
        /\ n \in DOMAIN heap'
        /\ heap'[n] = heap[n]
        /\ (heap[n].fields # NoRef =>
              /\ heap[n].fields \in DOMAIN maps'
              /\ maps'[heap[n].fields] = maps[heap[n].fields])
        /\ (n = err => GetFields(n)' = GetFields(n)) ]_vars

\* the caller has changed the map GetFields returned for a chain headed by
\* a field node
C9_Witness ==
  /\ ret.op = "GetFields"
  /\ ret.in # NIL
  /\ IsFieldNode(ret.in)
  /\ maps[ret.out] # ret.val
  /\ GetFields(ret.in) = ret.val

\* ---------------------------------------------------------------- C10
\* C10: for every variant the plain verbs (%s, %v) write the node's Error()
\* description unquoted and the quoted verb (%q) writes the quoted form of
\* that description, without recursing into the child's formatter.
C10_PlainAndQuoted ==
  (ret.op = "Format" /\ ~ret.arg.plus /\ heap[ret.in].kind # "Error") =>
     ret.out = (IF ret.arg.verb = "q" THEN Quote(Error(ret.in)) ELSE Error(ret.in))

====
